---- MODULE Spec2Model ----
(***************************************************************************)
(* twiceredis.client.Listener: the two-list reliable delivery protocol.    *)
(*                                                                         *)
(* A producer lpushes messages to the list `lijst`.  A Listener moves the  *)
(* tail of lijst to the head of its processing list with one atomic        *)
(* RPOPLPUSH / BRPOPLPUSH, calls the handler, and removes the message from *)
(* the processing list with LREM.  Listener.__init__ first handles what it *)
(* finds in the processing list.  Every store command is one atomic step;  *)
(* the Python code between two store commands is local to the listener.    *)
(*                                                                         *)
(* twiceredis.client.TwiceRedis and DisconnectingSentinel: the write and   *)
(* read connection pools, which resolve their address through the sentinel *)
(* manager when they connect, the sentinel manager's discovery calls and   *)
(* the sockets they leave open, and filter_slaves.                         *)
(***************************************************************************)
EXTENDS Integers, Sequences, FiniteSets, TLC

(* ------------------------------ bounds --------------------------------- *)

\* number of lpush commands the producer issues
MaxPush == 3
\* number of store commands that fail with a RedisError
MaxFault == 1
\* number of times a listener process is killed
MaxCrash == 1
\* the same three limits where two listeners run side by side
MaxPushTwo == 2
MaxFaultTwo == 1
MaxCrashTwo == 1
\* open sockets one connection pool holds at most
MaxSock == 2
\* length of the longest list of slave records
MaxSlaves == 2

(* ------------------------------ values --------------------------------- *)

\* message payloads: redis strings, the empty string included
Payload == {"", "a", "b"}

\* Python's None, and the True that __init__ assigns to `message`
None == "<None>"
True == "<True>"

\* Python truthiness of `if message:` / `while message:` / `if msg:`
Truthy(v) == v # None /\ v # ""

\* the Listener objects (one process each)
Listeners == {1, 2}

\* the list the listeners watch
lijst == "q"

\* processing_suffix values: the default, and a second one
DefaultSuffix == "|processing"
Suffixes == {DefaultSuffix, "|w2"}

Keys == {lijst} \cup {lijst \o s : s \in Suffixes}

\* exceptions: redis.exceptions.RedisError (transport and topology errors are
\* subclasses) and anything else, raised by a handler
RedisError == "RedisError"
HandlerError == "HandlerError"

\* handlers: Listener._default_handler, or a handler passed by the user
DefaultHandler == "_default_handler"
UserHandler == "user_handler"

\* what a call hands back to its caller
Return(v) == [kind |-> "return", val |-> v]
Raise(e) == [kind |-> "raise", val |-> e]
Pending == [kind |-> "pending", val |-> None]

VARIABLES
  deployed,           \* the listeners of this deployment
  limit,              \* how many pushes, store errors and crashes a run has
  processing_suffix,  \* listener -> its processing_suffix argument
  handler_arg,        \* listener -> its handler argument (None: not given)
  store,              \* redis: key -> list, head first (index 1 is the left end)
  pc,                 \* listener -> position in __init__ / get_message / listen
  message,            \* listener -> local `message` / `msg`
  active,             \* listener -> zelf.active
  handler,            \* listener -> zelf.handler
  hres,               \* listener -> outcome of zelf.handler(message) in _call_handler
  ret,                \* listener -> last finished call: op, outcome, and what it did
  unhandled,          \* key -> payload -> moved into the list, handler not yet completed
  owed,               \* listener -> payload -> completed handler invocations
                      \*   minus occurrences its lrem removed
  backlog,            \* pushed and not yet given to a handler by get_message /
                      \*   listen, oldest first
  in_order,           \* every such delivery was of the oldest of backlog
  npush,              \* lpush commands so far
  nfault,             \* store errors so far
  ncrash,             \* crashes so far
  sentinels,          \* DisconnectingSentinel.sentinels, in its shuffled order
  health,             \* sentinel -> what a query of it meets right now
  store_up,           \* the redis servers the sentinels name accept connections
  sentinel_conn,      \* sentinels whose connection_pool holds an open socket
  pool_conn,          \* "write" / "read" -> open sockets of that client's pool
  client,             \* the TwiceRedis object: "none" before __init__ returns
  call                \* the last call on the TwiceRedis object or its sentinel
                      \*   manager: op, argument, outcome

config == <<deployed, limit, processing_suffix, handler_arg>>
ghost == <<unhandled, owed, backlog, in_order>>
twice == <<sentinels, health, store_up, sentinel_conn, pool_conn, client, call>>
listener == <<store, pc, message, active, handler, hres, ret, ghost,
              npush, nfault, ncrash>>
vars == <<config, listener, twice>>

(* --------------------------- redis commands ---------------------------- *)

Count(list, m) == Cardinality({k \in 1..Len(list) : list[k] = m})

\* LPUSH key m
LPush(s, key, m) == [s EXCEPT ![key] = <<m>> \o @]

\* reply of RPOPLPUSH src dst (and of BRPOPLPUSH once it stops blocking)
RPopLPushReply(s, src) == IF s[src] = <<>> THEN None ELSE s[src][Len(s[src])]

\* a pop whose push is lost: the tail of src is removed and put nowhere
RPopOnly(s, src, dst) ==
  IF s[src] = <<>> THEN s
  ELSE [s EXCEPT ![src] = SubSeq(s[src], 1, Len(s[src]) - 1)]

\* a push without the pop: the tail of src is copied to dst and stays in src
CopyLPush(s, src, dst) ==
  IF s[src] = <<>> THEN s
  ELSE [s EXCEPT ![dst] = <<s[src][Len(s[src])]>> \o s[dst]]

\* effect of RPOPLPUSH src dst: tail of src becomes head of dst, atomically
RPopLPush(s, src, dst) ==
  IF s[src] = <<>> THEN s
  ELSE [s EXCEPT ![src] = SubSeq(s[src], 1, Len(s[src]) - 1),
                 ![dst] = <<s[src][Len(s[src])]>> \o s[dst]]

\* LINDEX key -1
LIndex(s, key) == IF s[key] = <<>> THEN None ELSE s[key][Len(s[key])]

\* position of the occurrence LREM key -1 m removes (0: none)
LastIndex(list, m) ==
  IF Count(list, m) = 0 THEN 0
  ELSE CHOOSE k \in 1..Len(list) :
         list[k] = m /\ \A j \in (k + 1)..Len(list) : list[j] # m

\* position of the occurrence nearest the head (0: none)
FirstIndex(list, m) ==
  IF Count(list, m) = 0 THEN 0
  ELSE CHOOSE k \in 1..Len(list) :
         list[k] = m /\ \A j \in 1..(k - 1) : list[j] # m

RemoveAt(list, k) == SubSeq(list, 1, k - 1) \o SubSeq(list, k + 1, Len(list))

\* LREM key 0 m: remove every occurrence of m
LRemAll(s, key, m) ==
  [s EXCEPT ![key] = SelectSeq(@, LAMBDA x : x # m)]

\* LREM key -1 m: remove the occurrence of m nearest the tail
LRem(s, key, m) ==
  IF LastIndex(s[key], m) = 0 THEN s
  ELSE [s EXCEPT ![key] = RemoveAt(@, LastIndex(@, m))]

(* ------------------------------ Listener ------------------------------- *)

\* zelf._processing = lijst + processing_suffix
processing(i) == lijst \o processing_suffix[i]

\* an except clause for another exception class, which matches no RedisError
socket_error(e) == e = "socket.error"

\* `except zelf.r.generic_error`: TwiceRedis.generic_error = RedisError
generic_error(e) == e = RedisError

\* positions of a listener
At(op, at) == [op |-> op, at |-> at]
Dead == At("dead", "-")
Idle == At("idle", "-")

\* record of a call: the operation, its outcome ("pending" while it runs), and
\* the exceptions it logged with LOG.exception('')
NoRet == [op |-> "none", kind |-> "none", val |-> None, log |-> {}]
Started(op) == [NoRet EXCEPT !.op = op, !.kind = "pending"]

ZeroBag == [m \in Payload |-> 0]

\* the sentinels given to TwiceRedis, and what a query of one meets: no
\* connection, a sentinel that names no usable master (none known, or fewer
\* than min_other_sentinels peers), or a sentinel that names one
Sentinels == {"s1", "s2"}
Health == {"down", "no_master", "ok"}

\* the two clients of a TwiceRedis: write_client (master) and read_client (slave)
Roles == {"write", "read"}

\* redis.sentinel.MasterNotFoundError, a RedisError
MasterNotFoundError == "MasterNotFoundError"

\* record of a call on the TwiceRedis object or on its sentinel manager
NoCall == [op |-> "none", arg |-> None, kind |-> "none", val |-> None]
Called(op, arg, out) == [op |-> op, arg |-> arg, kind |-> out.kind, val |-> out.val]

\* the TwiceRedis object a Listener is given: constructed, nothing connected yet
Given ==
  /\ sentinels = <<"s1", "s2">>
  /\ health = [s \in Sentinels |-> "ok"]
  /\ store_up = TRUE
  /\ sentinel_conn = {}
  /\ pool_conn = [r \in Roles |-> 0]
  /\ client = "built"
  /\ call = NoCall

Start ==
  /\ store = [k \in Keys |-> <<>>]
  /\ pc = [i \in Listeners |-> Dead]
  /\ message = [i \in Listeners |-> None]
  /\ active = [i \in Listeners |-> FALSE]
  /\ handler = [i \in Listeners |-> DefaultHandler]
  /\ hres = [i \in Listeners |-> Pending]
  /\ ret = [i \in Listeners |-> NoRet]
  /\ unhandled = [k \in Keys |-> ZeroBag]
  /\ owed = [i \in Listeners |-> ZeroBag]
  /\ backlog = <<>>
  /\ in_order = TRUE
  /\ npush = 0
  /\ nfault = 0
  /\ ncrash = 0

\* one listener, with the default processing_suffix, with or without a handler
Init ==
  /\ deployed = {1}
  /\ limit = [push |-> MaxPush, fault |-> MaxFault, crash |-> MaxCrash]
  /\ processing_suffix = [i \in Listeners |-> DefaultSuffix]
  /\ handler_arg \in [Listeners -> {None, UserHandler}]
  /\ handler_arg[2] = None
  /\ Start
  /\ Given

\* two listeners on the same lijst, with the same or with different suffixes,
\* the first with a handler of its user and the second without
InitTwo ==
  /\ deployed = Listeners
  /\ limit = [push |-> MaxPushTwo, fault |-> MaxFaultTwo, crash |-> MaxCrashTwo]
  /\ processing_suffix \in [Listeners -> Suffixes]
  /\ processing_suffix[1] = DefaultSuffix
  /\ handler_arg = [i \in Listeners |-> IF i = 1 THEN UserHandler ELSE None]
  /\ Start
  /\ Given

\* producer: r.master.lpush(lijst, m)
Push(m) ==
  /\ npush < limit.push
  /\ npush' = npush + 1
  /\ store' = LPush(store, lijst, m)
  /\ backlog' = Append(backlog, m)
  /\ UNCHANGED <<config, twice, pc, message, active, handler, hres, ret,
                 unhandled, owed, in_order, nfault, ncrash>>

\* zelf.handler = handler or zelf._default_handler
handler_or_default(h) == IF h = None THEN DefaultHandler ELSE h

\* Listener(twice_redis, lijst, handler, processing_suffix=...), up to the
\* recovery loop
Construct(i) ==
  /\ pc[i] = Dead
  /\ handler' = [handler EXCEPT ![i] = handler_or_default(handler_arg[i])]
  /\ active' = [active EXCEPT ![i] = TRUE]
  /\ message' = [message EXCEPT ![i] = True]
  /\ pc' = [pc EXCEPT ![i] = At("__init__", "lindex")]
  /\ ret' = [ret EXCEPT ![i] = Started("__init__")]
  /\ UNCHANGED <<config, twice, store, hres, ghost, npush, nfault, ncrash>>

\* a store command fails with a RedisError; the server may or may not have
\* executed it before the connection was lost
StoreFault ==
  /\ nfault < limit.fault
  /\ nfault' = nfault + 1

\* LOG.exception(''), in the handler of exception e
Logged(r, e) == [r EXCEPT !.log = @ \cup {e}]

\* an exception leaves the operation: __init__ yields no object, get_message
\* and listen raise to their caller.  r is the record of the call so far.
Propagate(i, r, e) ==
  /\ pc' = [pc EXCEPT ![i] = IF pc[i].op = "__init__" THEN Dead ELSE Idle]
  /\ ret' = [ret EXCEPT ![i] = [r EXCEPT !.kind = "raise", !.val = e]]

\* listen with `if zelf.active:` for `while zelf.active:`: it returns after one
\* pass through the try statement
ResumeOnce(i, r, v) ==
  /\ pc' = [pc EXCEPT ![i] = IF pc[i].op = "__init__"
                               THEN At("__init__", "lindex") ELSE Idle]
  /\ ret' = [ret EXCEPT ![i] = IF pc[i].op = "__init__" THEN r
                                ELSE [r EXCEPT !.kind = "return", !.val = v]]

\* the operation goes on after its try statement, whose body ran through with
\* result v or whose except clause logged the exception (v = None)
Resume(i, r, v) ==
  CASE pc[i].op = "__init__" ->
         \* `while message:` with message still true
         /\ pc' = [pc EXCEPT ![i] = At("__init__", "lindex")]
         /\ ret' = [ret EXCEPT ![i] = r]
    [] pc[i].op \in {"idle", "get_message"} ->
         \* `return zelf._call_handler(message)`, or falling off the end
         /\ pc' = [pc EXCEPT ![i] = Idle]
         /\ ret' = [ret EXCEPT ![i] = [r EXCEPT !.kind = "return", !.val = v]]
    [] pc[i].op = "listen" ->
         \* finally: time.sleep(0), and back to `while zelf.active:`
         /\ pc' = [pc EXCEPT ![i] = At("listen", "top")]
         /\ ret' = [ret EXCEPT ![i] = r]

\* the try statement of __init__ / get_message / listen ends with `out`:
\* `except zelf.r.generic_error: LOG.exception('')` catches RedisError only
Except(i, r, out) ==
  IF out.kind = "raise"
  THEN IF generic_error(out.val)
       THEN Resume(i, Logged(r, out.val), None)
       ELSE Propagate(i, r, out.val)
  ELSE Resume(i, r, out.val)

\* _call_handler that runs its lrem without calling the handler first
lrem_first(op) == At(op, "lrem")

\* the position of a listener that enters _call_handler(message) from `op`
call_handler_entry(op) == At(op, "handler")

\* a recovery loop that inspects lijst where it should inspect _processing
InitLindexOnLijst(i) ==
  /\ pc[i] = At("__init__", "lindex")
  /\ message' = [message EXCEPT ![i] = LIndex(store, lijst)]
  /\ IF Truthy(LIndex(store, lijst))
     THEN /\ pc' = [pc EXCEPT ![i] = call_handler_entry("__init__")]
          /\ UNCHANGED ret
     ELSE /\ pc' = [pc EXCEPT ![i] = Idle]
          /\ ret' = [ret EXCEPT ![i] = [@ EXCEPT !.kind = "return"]]
  /\ UNCHANGED <<config, twice, store, active, handler, hres, ghost, npush,
                 nfault, ncrash>>

\* __init__: message = zelf.r.master.lindex(zelf._processing, -1)
InitLindex(i) ==
  /\ pc[i] = At("__init__", "lindex")
  /\ \/ LET m == LIndex(store, processing(i)) IN
        /\ message' = [message EXCEPT ![i] = m]
        /\ IF Truthy(m)
           THEN /\ pc' = [pc EXCEPT ![i] = call_handler_entry("__init__")]
                /\ UNCHANGED ret
           ELSE \* `while message:` ends the loop and __init__ returns
                /\ pc' = [pc EXCEPT ![i] = Idle]
                /\ ret' = [ret EXCEPT ![i] = [@ EXCEPT !.kind = "return"]]
        /\ UNCHANGED nfault
     \/ /\ StoreFault
        /\ Except(i, ret[i], Raise(RedisError))
        /\ UNCHANGED message
  /\ UNCHANGED <<config, twice, store, active, handler, hres, ghost, npush, ncrash>>

\* the handler a listener calls: _default_handler logs and returns the message,
\* a user's handler returns something or raises
HandlerOutcomes(h, m) ==
  IF h = DefaultHandler THEN {Return(m)}
  ELSE {Return("done"), Raise(HandlerError)}

\* _call_handler without its bare `except:`: what the handler raised goes on
\* to the caller after the finally clause
call_handler_reraise(h, l) ==
  IF l.kind = "raise" THEN l ELSE h

\* what _call_handler hands to its caller, from the handler's outcome h and the
\* outcome l of the lrem in its finally clause: an exception of the finally
\* clause replaces the pending return, the bare `except:` swallows what the
\* handler raised and the function then returns None
call_handler(h, l) ==
  IF l.kind = "raise" THEN l
  ELSE IF h.kind = "raise" THEN Return(None)
  ELSE h

Bump(f, a, m, d) == [f EXCEPT ![a][m] = @ + d]

\* _call_handler, try clause: zelf.handler(message) runs to completion
Handler(i) ==
  /\ pc[i].at = "handler"
  /\ \E out \in HandlerOutcomes(handler[i], message[i]) :
       /\ hres' = [hres EXCEPT ![i] = out]
       \* except: LOG.exception('')
       /\ ret' = [ret EXCEPT ![i] = IF out.kind = "raise"
                                    THEN Logged(@, out.val) ELSE @]
  /\ pc' = [pc EXCEPT ![i] = At(pc[i].op, "lrem")]
  /\ owed' = Bump(owed, i, message[i], 1)
  /\ unhandled' = IF unhandled[processing(i)][message[i]] > 0
                  THEN Bump(unhandled, processing(i), message[i], -1)
                  ELSE unhandled
  /\ IF pc[i].op = "__init__"
     THEN UNCHANGED <<backlog, in_order>>
     ELSE /\ in_order' = (in_order /\ backlog # <<>> /\ Head(backlog) = message[i])
          /\ backlog' = IF Count(backlog, message[i]) = 0 THEN backlog
                        ELSE RemoveAt(backlog, FirstIndex(backlog, message[i]))
  /\ UNCHANGED <<config, twice, store, message, active, handler, npush, nfault,
                 ncrash>>

\* _call_handler, finally clause: zelf.r.master.lrem(zelf._processing, -1,
\* message); then the caller's except clause and what follows it
Lrem(i) ==
  LET key == processing(i)
      m == message[i]
      after == LRem(store, key, m)
      n == Count(store[key], m) - Count(after[key], m)
  IN
  /\ pc[i].at = "lrem"
  /\ \/ /\ store' = after
        /\ owed' = Bump(owed, i, m, -n)
        /\ Except(i, ret[i], call_handler(hres[i], Return(n)))
        /\ UNCHANGED nfault
     \/ /\ StoreFault
        /\ \E applied \in BOOLEAN :
             /\ store' = IF applied THEN after ELSE store
             /\ owed' = IF applied THEN Bump(owed, i, m, -n) ELSE owed
             /\ Except(i, ret[i], call_handler(hres[i], Raise(RedisError)))
  /\ hres' = [hres EXCEPT ![i] = Pending]
  /\ UNCHANGED <<config, twice, message, active, handler, unhandled, backlog,
                 in_order, npush, ncrash>>

\* the move of get_message (rpoplpush) and of listen (brpoplpush, which gives
\* up after read_time when lijst stays empty), in the call with record r
Move(i, r) ==
  LET m == RPopLPushReply(store, lijst)
      after == RPopLPush(store, lijst, processing(i))
  IN
  \/ /\ store' = after
     /\ unhandled' = IF m = None THEN unhandled
                     ELSE Bump(unhandled, processing(i), m, 1)
     /\ IF Truthy(m)
        THEN /\ message' = [message EXCEPT ![i] = m]
             /\ pc' = [pc EXCEPT ![i] = call_handler_entry(r.op)]
             /\ ret' = [ret EXCEPT ![i] = r]
        ELSE /\ message' = [message EXCEPT ![i] = m]
             /\ Except(i, r, Return(None))
     /\ UNCHANGED nfault
  \/ /\ StoreFault
     /\ \E applied \in BOOLEAN :
          /\ store' = IF applied THEN after ELSE store
          /\ unhandled' = IF applied /\ m # None
                          THEN Bump(unhandled, processing(i), m, 1)
                          ELSE unhandled
          /\ Except(i, r, Raise(RedisError))
     /\ UNCHANGED message

\* get_message(): message = zelf.r.master.rpoplpush(zelf.lijst, zelf._processing)
GetMessage(i) ==
  /\ pc[i] = Idle
  /\ Move(i, Started("get_message"))
  /\ UNCHANGED <<config, twice, active, handler, hres, owed, backlog, in_order,
                 npush, ncrash>>

\* listen(): `while zelf.active:`, on entry and after every iteration
ListenTop(i) ==
  LET r == IF pc[i] = Idle THEN Started("listen") ELSE ret[i] IN
  /\ pc[i] \in {Idle, At("listen", "top")}
  /\ IF active[i]
     THEN /\ pc' = [pc EXCEPT ![i] = At("listen", "brpoplpush")]
          /\ ret' = [ret EXCEPT ![i] = r]
     ELSE /\ pc' = [pc EXCEPT ![i] = Idle]
          /\ ret' = [ret EXCEPT ![i] = [r EXCEPT !.kind = "return"]]
  \* `msg` is a local of this call: not bound before the first brpoplpush
  /\ message' = IF pc[i] = Idle THEN [message EXCEPT ![i] = None] ELSE message
  /\ UNCHANGED <<config, twice, store, active, handler, hres, ghost, npush, nfault,
                 ncrash>>

\* listen(): msg = zelf.r.master.brpoplpush(zelf.lijst, zelf._processing,
\* zelf.read_time)
ListenRecv(i) ==
  /\ pc[i] = At("listen", "brpoplpush")
  /\ Move(i, ret[i])
  /\ UNCHANGED <<config, twice, active, handler, hres, owed, backlog, in_order,
                 npush, ncrash>>

\* another thread: listener.active = False
SetInactive(i) ==
  /\ pc[i] # Dead
  /\ active[i]
  /\ active' = [active EXCEPT ![i] = FALSE]
  /\ UNCHANGED <<config, twice, store, pc, message, handler, hres, ret, ghost,
                 npush, nfault, ncrash>>

\* the listener's process is killed, at any point
Crash(i) ==
  /\ pc[i] # Dead
  /\ ncrash < limit.crash
  /\ ncrash' = ncrash + 1
  /\ pc' = [pc EXCEPT ![i] = Dead]
  /\ message' = [message EXCEPT ![i] = None]
  /\ active' = [active EXCEPT ![i] = FALSE]
  /\ hres' = [hres EXCEPT ![i] = Pending]
  /\ ret' = [ret EXCEPT ![i] = NoRet]
  /\ UNCHANGED <<config, twice, store, handler, ghost, npush, nfault>>

Next ==
  \/ \E m \in Payload : Push(m)
  \/ \E i \in deployed : Construct(i)
  \/ \E i \in deployed : InitLindex(i)
  \/ \E i \in deployed : Handler(i)
  \/ \E i \in deployed : Lrem(i)
  \/ \E i \in deployed : GetMessage(i)
  \/ \E i \in deployed : ListenTop(i)
  \/ \E i \in deployed : ListenRecv(i)
  \/ \E i \in deployed : SetInactive(i)
  \/ \E i \in deployed : Crash(i)

Spec == Init /\ [][Next]_vars

SpecTwo == InitTwo /\ [][Next]_vars

(* ------------------- DisconnectingSentinel, TwiceRedis ------------------ *)

\* a slave as SENTINEL slaves reports it (master_link_status: the key
\* 'master-link-status')
SlaveRecord ==
  [ip : {"10.0.0.1", "10.0.0.2"}, port : {"6379"},
   is_odown : BOOLEAN, is_sdown : BOOLEAN, master_link_status : {"ok", "err"}]

SlaveLists == UNION {[1..n -> SlaveRecord] : n \in 0..MaxSlaves}

\* filter_slaves that drops the ODOWN and SDOWN slaves only
filter_slaves_down_only(slaves) ==
  LET up == SelectSeq(slaves, LAMBDA s : ~s.is_odown /\ ~s.is_sdown)
  IN [k \in 1..Len(up) |-> <<up[k].ip, up[k].port>>]

\* DisconnectingSentinel.filter_slaves: the list comprehension, record by record
RECURSIVE filter_slaves(_)
filter_slaves(slaves) ==
  IF slaves = <<>> THEN <<>>
  ELSE LET s == Head(slaves) IN
       (IF ~s.is_odown /\ ~s.is_sdown /\ s.master_link_status = "ok"
        THEN << <<s.ip, s.port>> >> ELSE <<>>)
         \o filter_slaves(Tail(slaves))

\* the address a sentinel names as master
MasterAddress == <<"10.0.0.9", "6379">>

\* position in `sentinels` of the first sentinel that names a master (0: none)
FirstOk ==
  IF \A k \in 1..Len(sentinels) : health[sentinels[k]] # "ok" THEN 0
  ELSE CHOOSE k \in 1..Len(sentinels) :
         /\ health[sentinels[k]] = "ok"
         /\ \A j \in 1..(k - 1) : health[sentinels[j]] # "ok"

\* super().discover_master: the sentinels are asked in order until one names a
\* master; MasterNotFoundError when none does
super_discover_master ==
  IF FirstOk = 0 THEN Raise(MasterNotFoundError) ELSE Return(MasterAddress)

\* the sentinels a discovery has an open socket to when it ends: those it asked
\* (all of them, or up to position `last`) and reached
Opened(last) ==
  {sentinels[k] : k \in {j \in 1..Len(sentinels) :
                           (last = 0 \/ j <= last) /\ health[sentinels[j]] # "down"}}

\* disconnect_sentinels: s.connection_pool.disconnect() for s in sentinels
disconnect_sentinels(conn) == {}

\* DisconnectingSentinel.discover_master, its effect on the sentinels' sockets:
\* disconnect_sentinels runs when the super call returned, and is not reached
\* when it raised
discover_master_conn(conn) ==
  IF super_discover_master.kind = "raise"
  THEN conn \cup Opened(FirstOk)
  ELSE disconnect_sentinels(conn \cup Opened(FirstOk))

\* position of the first sentinel that answers SENTINEL slaves (0: none)
FirstUp ==
  IF \A k \in 1..Len(sentinels) : health[sentinels[k]] = "down" THEN 0
  ELSE CHOOSE k \in 1..Len(sentinels) :
         /\ health[sentinels[k]] # "down"
         /\ \A j \in 1..(k - 1) : health[sentinels[j]] = "down"

\* super().discover_slaves: the first sentinel whose filtered reply is not
\* empty decides; [] when there is none.  Every sentinel reached replies `reply`.
super_discover_slaves(reply) ==
  Return(IF FirstUp = 0 THEN <<>> ELSE filter_slaves(reply))

\* DisconnectingSentinel.discover_slaves, its effect on the sentinels' sockets
discover_slaves_conn(conn, reply) ==
  disconnect_sentinels(
    conn \cup Opened(IF filter_slaves(reply) = <<>> THEN 0 ELSE FirstUp))

\* replies to SENTINEL slaves: none, one healthy slave, one whose link to the
\* master is broken, one SDOWN followed by one healthy
Replies ==
  LET rec(ip, sdown, link) ==
        [ip |-> ip, port |-> "6379", is_odown |-> FALSE, is_sdown |-> sdown,
         master_link_status |-> link]
  IN {<<>>,
      <<rec("10.0.0.1", FALSE, "ok")>>,
      <<rec("10.0.0.1", FALSE, "err")>>,
      <<rec("10.0.0.1", TRUE, "ok"), rec("10.0.0.2", FALSE, "ok")>>}

\* no TwiceRedis object yet; the sentinels and servers in any condition
InitClient ==
  /\ deployed = {}
  /\ limit = [push |-> 0, fault |-> 0, crash |-> 0]
  /\ processing_suffix = [i \in Listeners |-> DefaultSuffix]
  /\ handler_arg = [i \in Listeners |-> None]
  /\ Start
  /\ sentinels = <<>>
  /\ health \in [Sentinels -> Health]
  /\ store_up \in BOOLEAN
  /\ sentinel_conn = {}
  /\ pool_conn = [r \in Roles |-> 0]
  /\ client = "none"
  /\ call = NoCall

\* a constructor that resolves and connects to the master before it returns
TwiceRedisInitEager ==
  /\ client = "none"
  /\ sentinels' \in {q \in [1..Cardinality(Sentinels) -> Sentinels] :
                       {q[k] : k \in DOMAIN q} = Sentinels}
  /\ IF store_up /\ \E s \in Sentinels : health[s] = "ok"
     THEN /\ client' = "built"
          /\ pool_conn' = [pool_conn EXCEPT !["write"] = 1]
          /\ call' = Called("TwiceRedis", None, Return("TwiceRedis"))
     ELSE /\ client' = "none"
          /\ pool_conn' = pool_conn
          /\ call' = Called("TwiceRedis", None, Raise(RedisError))
  /\ UNCHANGED <<config, listener, health, store_up, sentinel_conn>>

\* TwiceRedis.__init__: shuffles the sentinels and builds the sentinel manager,
\* the two pools and the two clients; no command is sent and no socket opened
TwiceRedisInit ==
  /\ client = "none"
  /\ sentinels' \in {q \in [1..Cardinality(Sentinels) -> Sentinels] :
                       {q[k] : k \in DOMAIN q} = Sentinels}
  /\ client' = "built"
  /\ call' = Called("TwiceRedis", None, Return("TwiceRedis"))
  /\ UNCHANGED <<config, listener, health, store_up, sentinel_conn, pool_conn>>

\* the environment: a sentinel or the servers change condition
Topology ==
  /\ \/ /\ \E s \in Sentinels, h \in Health : health' = [health EXCEPT ![s] = h]
        /\ UNCHANGED store_up
     \/ /\ store_up' = ~store_up
        /\ UNCHANGED health
  /\ UNCHANGED <<config, listener, sentinels, sentinel_conn, pool_conn, client,
                 call>>

\* sentinel_manager.discover_master(master_name)
DiscoverMaster ==
  /\ client = "built"
  /\ call' = Called("discover_master", None, super_discover_master)
  /\ sentinel_conn' = discover_master_conn(sentinel_conn)
  /\ UNCHANGED <<config, listener, sentinels, health, store_up, pool_conn,
                 client>>

\* sentinel_manager.discover_slaves(master_name)
DiscoverSlaves ==
  /\ client = "built"
  /\ \E reply \in Replies :
       /\ call' = Called("discover_slaves", None, super_discover_slaves(reply))
       /\ sentinel_conn' = discover_slaves_conn(sentinel_conn, reply)
  /\ UNCHANGED <<config, listener, sentinels, health, store_up, pool_conn,
                 client>>

\* a command through the write or the read client.  The pool hands out a socket
\* it holds, or (when it holds none, or for a concurrent user) makes a new
\* connection: the write pool asks the sentinel manager for the master, the
\* read pool for the slaves and, when there is none, for the master.
Use(role) ==
  /\ client = "built"
  /\ \E another \in BOOLEAN, reply \in Replies :
       LET connect == pool_conn[role] = 0
                        \/ (another /\ pool_conn[role] < MaxSock)
           slaves == IF role = "read" THEN super_discover_slaves(reply).val
                     ELSE <<>>
           conn == IF role = "read"
                   THEN discover_slaves_conn(sentinel_conn, reply)
                   ELSE sentinel_conn
           ask_master == slaves = <<>>
           found == ask_master => super_discover_master.kind = "return"
       IN
       IF ~connect
       THEN /\ UNCHANGED sentinel_conn
            /\ IF store_up
               THEN /\ call' = Called(role, None, Return("reply"))
                    /\ UNCHANGED pool_conn
               ELSE \* the socket is dead: it is closed and the error raised
                    /\ call' = Called(role, None, Raise(RedisError))
                    /\ pool_conn' = [pool_conn EXCEPT ![role] = @ - 1]
       ELSE /\ sentinel_conn' = IF ask_master THEN discover_master_conn(conn)
                                ELSE conn
            /\ IF ~found
               THEN /\ call' = Called(role, None, Raise(MasterNotFoundError))
                    /\ UNCHANGED pool_conn
               ELSE IF store_up
               THEN /\ call' = Called(role, None, Return("reply"))
                    /\ pool_conn' = [pool_conn EXCEPT ![role] = @ + 1]
               ELSE /\ call' = Called(role, None, Raise(RedisError))
                    /\ UNCHANGED pool_conn
  /\ UNCHANGED <<config, listener, sentinels, health, store_up, client>>

\* DisconnectRedis.disconnect: selfie.connection_pool.disconnect()
pool_disconnect(conns, role) == [conns EXCEPT ![role] = 0]

\* TwiceRedis.disconnect that leaves the read client alone
disconnect_write_only(conns) == pool_disconnect(conns, "write")

\* TwiceRedis.disconnect: write_client.disconnect(); read_client.disconnect()
disconnect(conns) == pool_disconnect(pool_disconnect(conns, "write"), "read")

Disconnect ==
  /\ client = "built"
  /\ pool_conn' = disconnect(pool_conn)
  /\ call' = Called("disconnect", None, Return(None))
  /\ UNCHANGED <<config, listener, sentinels, health, store_up, sentinel_conn,
                 client>>

NextClient ==
  \/ TwiceRedisInit
  \/ Topology
  \/ DiscoverMaster
  \/ DiscoverSlaves
  \/ \E role \in Roles : Use(role)
  \/ Disconnect

SpecClient == InitClient /\ [][NextClient]_vars

\* a TwiceRedis object whose sentinel manager is asked to filter slave lists
InitFilter ==
  /\ deployed = {}
  /\ limit = [push |-> 0, fault |-> 0, crash |-> 0]
  /\ processing_suffix = [i \in Listeners |-> DefaultSuffix]
  /\ handler_arg = [i \in Listeners |-> None]
  /\ Start
  /\ Given

\* sentinel_manager.filter_slaves(slaves)
FilterSlaves ==
  /\ client = "built"
  /\ \E slaves \in SlaveLists :
       call' = Called("filter_slaves", slaves, Return(filter_slaves(slaves)))
  /\ UNCHANGED <<config, listener, sentinels, health, store_up, sentinel_conn,
                 pool_conn, client>>

NextFilter == FilterSlaves

SpecFilter == InitFilter /\ [][NextFilter]_vars

(* ------------------------------ properties ----------------------------- *)

Last(list) == list[Len(list)]

\* the call `op` of listener i has returned to its caller
Returned(i, op) == pc[i] = Idle /\ ret[i].op = op /\ ret[i].kind = "return"

\* this step is listener i's lrem (and what follows it in the caller)
LremStep(i) == pc[i].at = "lrem" /\ pc'[i] # pc[i] /\ ncrash' = ncrash

\* this step is the rpoplpush of a get_message call of listener i that no
\* store error hits
MoveStep(i) ==
  /\ pc[i] = Idle
  /\ ret'[i].op = "get_message"
  /\ nfault' = nfault /\ npush' = npush /\ ncrash' = ncrash
  /\ (pc'[i] # pc[i] \/ ret'[i] # ret[i] \/ store' # store)

\* C1: every message that was moved out of lijst and that no handler
\* invocation has completed on is in the processing list it was moved to; in
\* particular the message a listener is about to hand, or has handed, to its
\* handler is in that listener's processing list.
C1_UnhandledInProcessing ==
  /\ \A k \in Keys, m \in Payload : unhandled[k][m] <= Count(store[k], m)
  /\ \A i \in deployed :
       pc[i].at = "handler" => Count(store[processing(i)], message[i]) > 0

\* a listener was killed between the move and the removal, and the message it
\* had moved sits unhandled in its processing list
C1_Witness ==
  \E i \in deployed :
    /\ pc[i] = Dead /\ ncrash > 0
    /\ unhandled[processing(i)]["a"] = 1
    /\ Count(store[lijst], "a") = 0

\* C2: for every listener and payload, the occurrences the listener's lrem has
\* removed never exceed the handler invocations it has completed on that
\* payload, and a listener reaches its lrem only with a finished handler call.
C2_RemovalAfterHandler ==
  \A i \in deployed :
    /\ \A m \in Payload : owed[i][m] >= 0
    /\ pc[i].at = "lrem" => hres[i].kind \in {"return", "raise"}

\* two listeners share one processing list; the first completed its handler on
\* a message, and its lrem found the occurrence already removed by the second
C2_Witness ==
  /\ processing(1) = processing(2)
  /\ pc[1] = Idle /\ pc[2] # Dead
  /\ nfault = 0
  /\ \E m \in Payload : owed[1][m] > 0 /\ owed[2][m] = 0

\* C3: when Listener.__init__ returns, a handler invocation has completed on
\* every message that was ever moved into the listener's processing list.
C3_RecoveryHandlesAll ==
  \A i \in deployed :
    Returned(i, "__init__") =>
      \A m \in Payload : unhandled[processing(i)][m] = 0

\* C4: when Listener.__init__ returns, the processing list is empty.
C4_ProcessingEmptyAfterInit ==
  \A i \in deployed :
    Returned(i, "__init__") => store[processing(i)] = <<>>

\* C5: a get_message call that no store error hits, on a non-empty lijst, moves
\* the tail of lijst to the processing list and calls the handler on it, then
\* removes it and returns what the handler returned (the message, with the
\* default handler); on an empty lijst it returns None and changes nothing.
C5_GetMessageResult ==
  [][\A i \in deployed :
       /\ (MoveStep(i) /\ store[lijst] # <<>>) =>
            /\ store' = RPopLPush(store, lijst, processing(i))
            /\ pc'[i] = At("get_message", "handler")
            /\ message'[i] = Last(store[lijst])
       /\ (MoveStep(i) /\ store[lijst] = <<>>) =>
            /\ pc'[i] = Idle
            /\ ret'[i].kind = "return" /\ ret'[i].val = None
            /\ store' = store
            /\ ghost' = ghost
       /\ (LremStep(i) /\ pc[i].op = "get_message" /\ nfault' = nfault) =>
            /\ pc'[i] = Idle
            /\ ret'[i].kind = "return"
            /\ ret'[i].val = IF hres[i].kind = "return" THEN hres[i].val ELSE None
            /\ handler[i] = DefaultHandler => ret'[i].val = message[i]
            /\ Count(store'[processing(i)], message[i])
                 = Count(store[processing(i)], message[i]) - 1
    ]_vars

\* where a listener stands after _call_handler when nothing left the operation
Continues(i) ==
  pc'[i] = CASE pc[i].op = "__init__" -> At("__init__", "lindex")
             [] pc[i].op = "listen" -> At("listen", "top")
             [] OTHER -> Idle

C7_GetMessageAbsorbsStoreError ==
  \A i \in deployed :
    ret[i].op = "get_message" =>
      /\ ret[i].kind # "raise"
      /\ (ret[i].kind = "return" /\ RedisError \in ret[i].log) => ret[i].val = None

\* get_message has returned None from a call whose handler returned and whose
\* lrem then failed: the message is still in the processing list
C7_Witness ==
  \E i \in deployed :
    /\ Returned(i, "get_message")
    /\ handler[i] = DefaultHandler
    /\ RedisError \in ret[i].log
    /\ ret[i].val = None
    /\ npush = 1 /\ nfault = 1 /\ ncrash = 0
    /\ backlog = <<>>
    /\ store[processing(i)] = <<"a">>

C9_StopLosesNothing ==
  \A i \in deployed :
    (Returned(i, "listen") /\ nfault = 0 /\ ncrash = 0 /\ message[i] # None) =>
      /\ Count(store[processing(i)], message[i]) = 0
      /\ unhandled[processing(i)][message[i]] = 0

\* C10: with one listener, no store error and no crash, every message that
\* get_message or listen hands to the handler is the oldest message pushed and
\* not handed over yet: the handler sees m1, m2, ..., mn in the order pushed.
C10_Fifo ==
  (nfault = 0 /\ ncrash = 0) => in_order

\* occurrences of payload m in lijst and in all processing lists together
Occurrences(s, m) ==
  Cardinality({p \in UNION {{<<k, j>> : j \in 1..Len(s[k])} : k \in Keys} :
                 s[p[1]][p[2]] = m})

\* this step is a completed handler invocation of listener i
HandlerStep(i) == pc[i].at = "handler" /\ pc'[i].at = "lrem"

\* C11: two listeners on one lijst with distinct processing_suffix values, no
\* listener killed: no step other than a push adds an occurrence of a payload
\* to lijst and the processing lists together (an occurrence moved by one
\* listener is in that listener's processing list and nowhere else), and every
\* handler invocation is by get_message / listen, on a message of its own
\* processing list, and takes one pushed occurrence no handler was given before.
C11_ClaimedByOne ==
  [][(processing(1) # processing(2) /\ ncrash' = 0) =>
       /\ npush' = npush =>
            \A m \in Payload : Occurrences(store', m) <= Occurrences(store, m)
       /\ \A i \in deployed :
            HandlerStep(i) =>
              /\ pc[i].op \in {"get_message", "listen"}
              /\ Count(store[processing(i)], message[i]) > 0
              /\ Count(backlog, message[i]) > 0
    ]_vars

\* both listeners are in their handlers at once, each on its own occurrence of
\* "a" in its own processing list
C11_Witness ==
  /\ processing(1) # processing(2)
  /\ ncrash = 0
  /\ pc[1].at = "handler" /\ pc[2].at = "handler"
  /\ message[1] = "a" /\ message[2] = "a"
  /\ store[processing(1)] = <<"a">> /\ store[processing(2)] = <<"a">>
  /\ store[lijst] = <<>>

\* C12: when discover_master or discover_slaves has finished, by returning or
\* by raising, no sentinel's connection pool holds an open socket.
C12_DiscoveryReleasesSockets ==
  call.op \in {"discover_master", "discover_slaves"} => sentinel_conn = {}

\* this step is a command through the client `role`
UseStep(role) ==
  /\ call'.op = role
  /\ health' = health /\ store_up' = store_up /\ client = "built"

NoSockets == [r \in Roles |-> 0]

\* C13: after TwiceRedis.disconnect, once or several times in a row, neither
\* pool holds an open socket and nothing was raised; another disconnect changes
\* nothing; and the next command on the write or read client, made with no
\* pooled socket, resolves the address anew and succeeds with one new socket
\* whenever a sentinel names the master and the servers accept connections, and
\* it raises only when they do not.
C13_DisconnectIdempotent ==
  [][/\ call'.op = "disconnect" =>
          /\ pool_conn' = NoSockets
          /\ call'.kind = "return"
          /\ disconnect(pool_conn') = pool_conn'
          /\ client' = "built"
     /\ \A role \in Roles :
          (call.op = "disconnect" /\ UseStep(role)) =>
            /\ (store_up /\ FirstOk # 0) =>
                  call'.kind = "return" /\ pool_conn'[role] = 1
            /\ call'.kind = "raise" => (~store_up \/ FirstOk = 0)
    ]_vars

\* disconnect was called on a client whose earlier master resolution had failed
\* and left a sentinel socket open; the master can be resolved now
C13_Witness ==
  /\ call.op = "disconnect"
  /\ sentinel_conn # {}
  /\ store_up /\ FirstOk # 0

\* this step is the call of TwiceRedis.__init__
InitStep == call.op = "none" /\ call'.op = "TwiceRedis"

\* no sentinel names a master, or the servers refuse connections
Unavailable == ~store_up \/ \A s \in Sentinels : health[s] # "ok"

\* C14 (as claimed): TwiceRedis.__init__ raises when the topology is
\* unavailable or the store unreachable.
C14_ConstructorRaises ==
  [][(InitStep /\ Unavailable) => (call'.kind = "raise" /\ client' = "none")]_vars

\* C14 (as amended): TwiceRedis.__init__ returns the object whatever the
\* condition of sentinels and servers, and opens no socket; the error is raised
\* to the caller of the first command on the write client (and, when the
\* servers refuse connections, on the read client), as a RedisError.
C14_ErrorAtFirstUse ==
  [][/\ InitStep =>
          /\ call'.kind = "return" /\ client' = "built"
          /\ pool_conn' = NoSockets /\ sentinel_conn' = {}
     /\ \A role \in Roles :
          (UseStep(role) /\ pool_conn = NoSockets /\ Unavailable
             /\ (role = "write" \/ ~store_up)) =>
            /\ call'.kind = "raise"
            /\ call'.val \in {RedisError, MasterNotFoundError}
            /\ pool_conn' = NoSockets
    ]_vars

\* the object was constructed while no sentinel named a master and the servers
\* refused connections
C14_Witness ==
  /\ call.op = "TwiceRedis" /\ call.kind = "return" /\ client = "built"
  /\ ~store_up /\ \A s \in Sentinels : health[s] = "down"

\* the positions of the records filter_slaves is to keep
Kept(slaves) ==
  {k \in 1..Len(slaves) :
     /\ slaves[k].is_odown = FALSE
     /\ slaves[k].is_sdown = FALSE
     /\ slaves[k].master_link_status = "ok"}

\* C15: filter_slaves returns one (ip, port) pair for each record that is not
\* ODOWN, not SDOWN and has master-link-status 'ok', and nothing else: the j-th
\* pair of the result is that of the j-th such record of the input.
C15_FilterSlaves ==
  call.op = "filter_slaves" =>
    /\ call.kind = "return"
    /\ Len(call.val) = Cardinality(Kept(call.arg))
    /\ \A j \in 1..Len(call.val) :
         \E k \in Kept(call.arg) :
           /\ Cardinality({h \in Kept(call.arg) : h <= k}) = j
           /\ call.val[j] = <<call.arg[k].ip, call.arg[k].port>>

\* a healthy slave was kept and one with a broken link to the master dropped
C15_Witness ==
  /\ call.op = "filter_slaves"
  /\ Len(call.arg) = 2
  /\ ~call.arg[1].is_odown /\ ~call.arg[1].is_sdown
  /\ call.arg[1].master_link_status = "err"
  /\ call.arg[1].ip = "10.0.0.1" /\ call.arg[2].ip = "10.0.0.2"
  /\ call.val = << <<"10.0.0.2", "6379">> >>

\* this step is a lindex of listener i's recovery loop that no store error hits
InspectStep(i) ==
  pc[i] = At("__init__", "lindex") /\ pc'[i] # pc[i] /\ ncrash' = ncrash

\* C16: the first inspection of a Listener under construction that finds the
\* processing list empty, with no store error before it, is the last step of
\* __init__: the constructor returns, no handler was or is called, nothing is
\* removed, and lijst and the processing lists are as they were.
C16_RecoveryNoOp ==
  [][\A i \in deployed :
       (InspectStep(i) /\ message[i] = True /\ ret[i].log = {}
          /\ store[processing(i)] = <<>>) =>
         /\ pc'[i] = Idle
         /\ ret'[i] = [ret[i] EXCEPT !.kind = "return"]
         /\ message'[i] = None
         /\ store' = store
         /\ ghost' = ghost
         /\ hres' = hres
    ]_vars

\* the first construction of the listener has returned, with a message waiting
\* in lijst and nothing in the processing list
C16_Witness ==
  \E i \in deployed :
    /\ Returned(i, "__init__") /\ ret[i].log = {}
    /\ nfault = 0 /\ ncrash = 0
    /\ store[lijst] = <<"a">> /\ store[processing(i)] = <<>>

\* this step is a move by listener i (rpoplpush or brpoplpush) that returned
\* the tail of lijst
MovedStep(i) ==
  /\ pc[i] \in {Idle, At("listen", "brpoplpush")}
  /\ store[lijst] # <<>>
  /\ store' = RPopLPush(store, lijst, processing(i))
  /\ nfault' = nfault /\ npush' = npush

\* C17: whatever the payload, the message a move returns is given to the
\* handler, and so is the message the recovery loop finds at the tail of a
\* non-empty processing list.
C17_PayloadIndependence ==
  [][\A i \in deployed :
       /\ MovedStep(i) =>
            pc'[i].at = "handler" /\ message'[i] = Last(store[lijst])
       /\ (InspectStep(i) /\ store[processing(i)] # <<>>) =>
            pc'[i].at = "handler" /\ message'[i] = Last(store[processing(i)])
    ]_vars

\* listener i is between messages: it has no message moved and not yet removed
Between(i) ==
  pc[i] \in {Idle, At("listen", "top"), At("listen", "brpoplpush")}

\* C18: one listener, no store error, no crash: every message moved out of
\* lijst has had exactly one completed handler invocation once the listener is
\* between messages, the processing list never holds more than one message,
\* and it is empty whenever the listener is between messages.
C18_ExactlyOnce ==
  (deployed = {1} /\ nfault = 0 /\ ncrash = 0) =>
    /\ Len(store[processing(1)]) <= 1
    /\ Between(1) =>
         /\ store[processing(1)] = <<>>
         /\ \A m \in Payload :
              unhandled[processing(1)][m] = 0 /\ owed[1][m] = 0
         /\ Len(backlog) = Len(store[lijst])

\* the operations of a constructed listener
Steady == {"idle", "get_message", "listen"}

\* C19: get_message and listen call the handler only on the message their own
\* move has just returned, and no step of theirs takes anything out of the
\* processing list except the lrem of _call_handler, which takes one occurrence
\* of the message just handled: what the processing list held before a move is
\* still there after the removal that follows it.
C19_NoReexamination ==
  [][\A i \in deployed :
       /\ (pc'[i].at = "handler" /\ pc[i].at # "handler"
             /\ pc'[i].op \in {"get_message", "listen"}) =>
            /\ MovedStep(i)
            /\ message'[i] = Last(store[lijst])
       /\ (pc[i].op \in Steady /\ pc'[i].op \in Steady) =>
            \A m \in Payload :
              Count(store'[processing(i)], m) >=
                Count(store[processing(i)], m)
                  - (IF pc[i].at = "lrem" /\ m = message[i] THEN 1 ELSE 0)
    ]_vars

\* "a" stayed in the processing list because its lrem failed after the handler
\* had run; a later get_message has handled and returned "b", and "a" is still
\* there
C19_Witness ==
  \E i \in deployed :
    /\ Returned(i, "get_message") /\ ret[i].val = "b"
    /\ nfault = 1 /\ ncrash = 0
    /\ owed[i]["a"] = 1
    /\ store[processing(i)] = <<"a">>
    /\ store[lijst] = <<>>

====
